---- MODULE Spec2Model ----
(***************************************************************************)
(* The SolarOracleWalkman contract (src/scripts/test-contract.js, lines    *)
(* 346-665): the validator validateIV7Data, the admission gate and ledger  *)
(* verifyAndStore, the re-validation walk verifyChainIntegrity, the        *)
(* lookups and the owner operations.                                       *)
(*                                                                         *)
(* Idealisations: keccak256 is collision free, so a digest is modelled by  *)
(* the tuple of the values it is computed from; an ECDSA signature is the  *)
(* pair (signing account, signed digest); a reverted call leaves the       *)
(* contract storage and the event log as they were (EVM semantics); the    *)
(* revert string "Validation failed: " ++ reason is kept as the pair       *)
(* (reason, detail).                                                       *)
(*                                                                         *)
(* Spec            the contract and the chain it runs on                   *)
(* SpecValidator   validateIV7Data on its own, over VectorInputs           *)
(* SpecConcurrent  a batch of admissible calls executed in any order       *)
(* SpecTamper      Spec, then one stored vector overwritten in place       *)
(* SpecViews       Spec with the view functions called, tampering included *)
(* SpecRotation    one replacement of the oracle signer                    *)
(* SpecRetry       Spec with the turned-away reports remembered            *)
(***************************************************************************)
EXTENDS Integers, Sequences, FiniteSets, TLC

VARIABLES
    owner,          \* Ownable._owner
    oracleSigner,   \* line 362
    maxStaleness,   \* line 363
    usedIvHash,     \* line 375: the set of ivHash mapped to true
    ivRecords,      \* line 376: the entries written so far, txId -> IVRecord
    userRecords,    \* line 377: account -> sequence of txId
    totalRecords,   \* line 379
    allRecords,     \* line 380
    blockNumber,    \* block.number of the block being executed
    blockTimestamp, \* block.timestamp of the block being executed
    logs,           \* events of the committed transactions
    pending,        \* calls submitted and not stored: a batch to execute, rejections noted
    last            \* the latest call: its inputs, its outcome, the storage before it

vars == <<owner, oracleSigner, maxStaleness, usedIvHash, ivRecords, userRecords,
          totalRecords, allRecords, blockNumber, blockTimestamp, logs, pending, last>>

ledgerVars == <<usedIvHash, ivRecords, userRecords, totalRecords, allRecords>>

-----------------------------------------------------------------------------
(* Validation parameters, lines 365-372 and 516 *)

MIN_VALUE == 10
MAX_VALUE == 3000
MIN_VARIANCE == 50
\* line 369 with the limit scaled as the square of the values is (a faulty variant)
MAX_VARIANCE_SQUARE_SCALED == 1200 * 1000
MAX_VARIANCE == 1200
MAX_RANGE == 2500
MAX_ALTERNATIONS == 3
MIN_UNIQUE_VALUES == 4
ALTERNATION_THRESHOLD == 1500

(* uint256 arithmetic of Solidity ^0.8: an overflow or underflow panics.     *)
(* UINT_MAX stands for type(uint256).max at the width of TLC's integers;     *)
(* Panic is the value of a panicked computation.                             *)
UINT_MAX == (1073741823 * 2) + 1
Panic == -1

uadd(a, b) ==
    IF a = Panic \/ b = Panic THEN Panic
    ELSE IF a > UINT_MAX - b THEN Panic ELSE a + b

usub(a, b) ==
    IF a = Panic \/ b = Panic THEN Panic
    ELSE IF b > a THEN Panic ELSE a - b

umul(a, b) ==
    IF a = Panic \/ b = Panic THEN Panic
    ELSE IF b # 0 /\ a > UINT_MAX \div b THEN Panic ELSE a * b

\* a division that rounds up instead of truncating (a faulty variant)
udivRoundUp(a, b) ==
    IF a = Panic \/ b = Panic \/ b = 0 THEN Panic ELSE (a + b - 1) \div b

udiv(a, b) ==
    IF a = Panic \/ b = Panic \/ b = 0 THEN Panic ELSE a \div b

-----------------------------------------------------------------------------
(* validateIV7Data, lines 428-526.  iv7Data is a 7-tuple, index 1..7 for the *)
(* code's 0..6.                                                              *)

\* the return statements with the reason string left empty (a faulty variant)
VerdictNoReason(isValid, reason) ==
    [isValid |-> isValid, reason |-> "", panic |-> FALSE]

Verdict(isValid, reason) == [isValid |-> isValid, reason |-> reason, panic |-> FALSE]
Panicked == [isValid |-> FALSE, reason |-> "", panic |-> TRUE]

\* lines 434-438 with the upper limit forgotten (a faulty variant)
RangeViolationNoUpper(iv7Data) ==
    \E i \in 1..7 : iv7Data[i] < MIN_VALUE

\* lines 434-438
RangeViolation(iv7Data) ==
    \E i \in 1..7 : iv7Data[i] < MIN_VALUE \/ iv7Data[i] > MAX_VALUE

\* lines 441, 446
RECURSIVE sumUpTo(_, _)
sumUpTo(iv7Data, n) ==
    IF n = 0 THEN 0 ELSE uadd(sumUpTo(iv7Data, n - 1), iv7Data[n])

\* lines 442, 447
RECURSIVE minUpTo(_, _)
minUpTo(iv7Data, n) ==
    IF n = 1 THEN iv7Data[1]
    ELSE LET m == minUpTo(iv7Data, n - 1)
         IN  IF iv7Data[n] < m THEN iv7Data[n] ELSE m

\* lines 443, 448 with the loop stopping one element early (a faulty variant)
RECURSIVE maxBeforeLast(_, _)
maxBeforeLast(iv7Data, n) ==
    IF n = 1 THEN iv7Data[1]
    ELSE LET m == maxBeforeLast(iv7Data, n - 1)
         IN  IF n < 7 /\ iv7Data[n] > m THEN iv7Data[n] ELSE m

\* lines 443, 448
RECURSIVE maxUpTo(_, _)
maxUpTo(iv7Data, n) ==
    IF n = 1 THEN iv7Data[1]
    ELSE LET m == maxUpTo(iv7Data, n - 1)
         IN  IF iv7Data[n] > m THEN iv7Data[n] ELSE m

\* lines 462 and 513-515 without the ternary (a faulty variant)
absDiffUnordered(a, b) == usub(a, b)

\* lines 462 and 513-515: the ternary that orders the subtraction
absDiff(a, b) == IF a > b THEN usub(a, b) ELSE usub(b, a)

\* lines 460-464
RECURSIVE varianceSumUpTo(_, _, _)
varianceSumUpTo(iv7Data, mean, n) ==
    IF n = 0 THEN 0
    ELSE LET diff == absDiff(iv7Data[n], mean)
         IN  uadd(varianceSumUpTo(iv7Data, mean, n - 1), umul(diff, diff))

\* line 481 with <= for < : a tie ends the decreasing run (a faulty variant)
isDecreasingStrict(iv7Data) == \A i \in 1..6 : iv7Data[i] > iv7Data[i + 1]

\* lines 476-482
isIncreasing(iv7Data) == \A i \in 1..6 : ~(iv7Data[i] > iv7Data[i + 1])
isDecreasing(iv7Data) == \A i \in 1..6 : ~(iv7Data[i] < iv7Data[i + 1])

\* lines 492-504 with the inner loop looking at the next element only
\* (a faulty variant)
RECURSIVE uniqueFromNeighbour(_, _, _)
uniqueFromNeighbour(iv7Data, i, counted) ==
    IF i > 7 THEN 0
    ELSE IF i \in counted THEN uniqueFromNeighbour(iv7Data, i + 1, counted)
    ELSE 1 + uniqueFromNeighbour(iv7Data, i + 1,
                counted \cup {j \in {i + 1} \cap (1..7) : iv7Data[i] = iv7Data[j]})

\* lines 492-504: counted is the set of indices whose counted[] flag is set
RECURSIVE uniqueFrom(_, _, _)
uniqueFrom(iv7Data, i, counted) ==
    IF i > 7 THEN 0
    ELSE IF i \in counted THEN uniqueFrom(iv7Data, i + 1, counted)
    ELSE 1 + uniqueFrom(iv7Data, i + 1,
                        counted \cup {j \in (i + 1)..7 : iv7Data[i] = iv7Data[j]})

uniqueCount(iv7Data) == uniqueFrom(iv7Data, 1, {})

\* lines 511-519 counting every change of value (a faulty variant)
alternationsOfAnyChange(iv7Data) ==
    Cardinality({i \in 1..6 : absDiff(iv7Data[i], iv7Data[i + 1]) > 0})

\* lines 511-519
alternations(iv7Data) ==
    Cardinality({i \in 1..6 :
                   absDiff(iv7Data[i], iv7Data[i + 1]) > ALTERNATION_THRESHOLD})

\* lines 428-526 with the monotonic pattern check moved in front of the
\* variance checks (a faulty variant)
validateMonotonicFirst(iv7Data) ==
    IF RangeViolation(iv7Data) THEN Verdict(FALSE, "Value outside valid range")
    ELSE
    LET sum   == sumUpTo(iv7Data, 7)
        mean  == udiv(sum, 7)
        range == usub(maxUpTo(iv7Data, 7), minUpTo(iv7Data, 7))
        variance == udiv(varianceSumUpTo(iv7Data, mean, 7), 7)
    IN
    IF sum = Panic \/ range = Panic \/ variance = Panic THEN Panicked
    ELSE IF range > MAX_RANGE THEN Verdict(FALSE, "Value range too wide")
    ELSE IF isIncreasing(iv7Data)
         THEN Verdict(FALSE, "Monotonic increasing pattern detected")
    ELSE IF isDecreasing(iv7Data)
         THEN Verdict(FALSE, "Monotonic decreasing pattern detected")
    ELSE IF variance < MIN_VARIANCE
         THEN Verdict(FALSE, "Variance too low - values too similar")
    ELSE IF variance > MAX_VARIANCE
         THEN Verdict(FALSE, "Variance too high - values too scattered")
    ELSE IF uniqueCount(iv7Data) < MIN_UNIQUE_VALUES
         THEN Verdict(FALSE, "Too many duplicate values")
    ELSE IF alternations(iv7Data) > MAX_ALTERNATIONS
         THEN Verdict(FALSE, "Too many extreme value alternations")
    ELSE Verdict(TRUE, "")

\* lines 428-526, in the order of the code
validateIV7Data(iv7Data) ==
    IF RangeViolation(iv7Data) THEN Verdict(FALSE, "Value outside valid range")
    ELSE
    LET sum   == sumUpTo(iv7Data, 7)
        min   == minUpTo(iv7Data, 7)
        max   == maxUpTo(iv7Data, 7)
        mean  == udiv(sum, 7)
        range == usub(max, min)
    IN
    IF sum = Panic \/ range = Panic THEN Panicked
    ELSE IF range > MAX_RANGE THEN Verdict(FALSE, "Value range too wide")
    ELSE
    LET variance == udiv(varianceSumUpTo(iv7Data, mean, 7), 7)
    IN
    IF variance = Panic THEN Panicked
    ELSE IF variance < MIN_VARIANCE
         THEN Verdict(FALSE, "Variance too low - values too similar")
    ELSE IF variance > MAX_VARIANCE
         THEN Verdict(FALSE, "Variance too high - values too scattered")
    ELSE IF isIncreasing(iv7Data)
         THEN Verdict(FALSE, "Monotonic increasing pattern detected")
    ELSE IF isDecreasing(iv7Data)
         THEN Verdict(FALSE, "Monotonic decreasing pattern detected")
    ELSE IF uniqueCount(iv7Data) < MIN_UNIQUE_VALUES
         THEN Verdict(FALSE, "Too many duplicate values")
    ELSE IF alternations(iv7Data) > MAX_ALTERNATIONS
         THEN Verdict(FALSE, "Too many extreme value alternations")
    ELSE Verdict(TRUE, "")

-----------------------------------------------------------------------------
(* Accounts of the test suite (src/unnamed/part_001 line 12); the deployer   *)
(* is the Ownable owner.                                                     *)

Accounts == {"owner", "user1"}
Deployer == "owner"

\* what ECDSA.recover yields for a signature that was made over another digest
NoSigner == "unrelated"

TEN_MINUTES == 600          \* line 363: 10 minutes, in seconds

(* Bounds of the model *)
MaxRecords == 3             \* successful stores
MaxBatch == 3               \* calls submitted together
MaxBlock == 2               \* blocks mined after deployment
DeployTime == 1000          \* block.timestamp at deployment

\* seconds between two blocks: the staleness limit is met exactly, or passed by one
BlockIntervals == {TEN_MINUTES, TEN_MINUTES + 1}

\* arguments of updateMaxStaleness
StalenessChoices == {TEN_MINUTES - 1, TEN_MINUTES}

-----------------------------------------------------------------------------
(* Submitted reports, struct IVReport lines 392-398 *)

validIV    == <<1000, 1020, 980, 1015, 985, 1025, 990>>   \* part_001 line 31
reversedIV == <<990, 1025, 985, 1015, 980, 1020, 1000>>
monotonicIV == <<100, 200, 300, 400, 500, 600, 700>>      \* part_001 line 45

Identities == {"test_user_1", ""}
Pubkeys == {"test_pubkey"}
IvHashes == {"h1", "h2"}
ReportVectors == {validIV, reversedIV, monotonicIV}
ReportTimes == {DeployTime, DeployTime + 1}

BaseReport ==
    [identity |-> "test_user_1", pubkey |-> "test_pubkey", ivHash |-> "h1",
     iv7Data |-> validIV, timestamp |-> DeployTime]

\* BaseReport, and BaseReport with one field replaced
Reports ==
    {report \in [identity : Identities, pubkey : Pubkeys, ivHash : IvHashes,
                 iv7Data : ReportVectors, timestamp : ReportTimes] :
        Cardinality({f \in DOMAIN BaseReport : report[f] # BaseReport[f]}) <= 1}

\* lines 556-565: the EIP-712 digest of a report, a digest of all its fields
Digest(report) ==
    <<"IVReport", report.identity, report.pubkey, report.ivHash,
      report.iv7Data, report.timestamp>>

\* a signature: the account that signed and the digest it signed
Signature(account, report) == [signer |-> account, digest |-> Digest(report)]

\* line 567: ECDSA.recover
recover(digest, signature) ==
    IF signature.digest = digest THEN signature.signer ELSE NoSigner

\* the same report with the other timestamp: what an old signature was made over
Resubmitted(report) ==
    [report EXCEPT !.timestamp = CHOOSE t \in ReportTimes : t # report.timestamp]

\* the signatures a caller may attach to a report
SignaturesFor(report) ==
    {Signature(a, report) : a \in Accounts}
        \cup {Signature(oracleSigner, Resubmitted(report))}

\* lines 571-576 with report.ivHash left out of the digest (a faulty variant)
TxIdOfBlockAndSender(ivHash, number, timestamp, sender) ==
    <<"", number, timestamp, sender>>

\* lines 571-576 with the digest taken of the block alone (a faulty variant)
TxIdOfBlock(ivHash, number, timestamp, sender) == <<"", number, timestamp, "">>

\* lines 571-576: txId, a digest of (ivHash, block.number, block.timestamp, msg.sender)
TxId(ivHash, number, timestamp, sender) == <<ivHash, number, timestamp, sender>>

\* struct IVRecord of an unwritten mapping slot (lines 382-390)
ZeroRecord ==
    [identity |-> "", pubkey |-> "0x0", ivHash |-> "0x0",
     iv7Data |-> <<0, 0, 0, 0, 0, 0, 0>>, timestamp |-> 0,
     blockNumber |-> 0, isValid |-> FALSE]

\* the contract storage and the block, as a value
Storage ==
    [owner |-> owner, oracleSigner |-> oracleSigner, maxStaleness |-> maxStaleness,
     usedIvHash |-> usedIvHash, ivRecords |-> ivRecords, userRecords |-> userRecords,
     totalRecords |-> totalRecords, allRecords |-> allRecords,
     blockNumber |-> blockNumber, blockTimestamp |-> blockTimestamp, logs |-> logs]

-----------------------------------------------------------------------------
(* Views *)

\* lines 633-639 answering an unwritten slot with the record stored last
\* (a faulty variant)
getRecordOrLatest(txId) ==
    IF txId \in DOMAIN ivRecords THEN ivRecords[txId]
    ELSE IF allRecords # <<>> THEN ivRecords[allRecords[Len(allRecords)]]
    ELSE ZeroRecord

\* lines 633-639
getRecord(txId) ==
    IF txId \in DOMAIN ivRecords THEN ivRecords[txId] ELSE ZeroRecord

\* lines 644-650
getUserRecords(user) == userRecords[user]

\* lines 612-621 with the loop started at the second record (a faulty variant)
RECURSIVE invalidAfterFirst(_)
invalidAfterFirst(n) ==
    IF n <= 1 THEN 0
    ELSE LET record == getRecord(allRecords[n])
         IN  invalidAfterFirst(n - 1)
               + (IF validateIV7Data(record.iv7Data).isValid THEN 0 ELSE 1)

\* lines 612-621 leaving the loop at the first invalid record (a faulty variant)
RECURSIVE invalidFirstOnly(_)
invalidFirstOnly(n) ==
    IF n = 0 THEN 0
    ELSE LET record == getRecord(allRecords[n])
         IN  IF invalidFirstOnly(n - 1) > 0 THEN 1
             ELSE IF validateIV7Data(record.iv7Data).isValid THEN 0 ELSE 1

\* lines 612-621
RECURSIVE invalidUpTo(_)
invalidUpTo(n) ==
    IF n = 0 THEN 0
    ELSE LET record == getRecord(allRecords[n])
         IN  invalidUpTo(n - 1)
               + (IF validateIV7Data(record.iv7Data).isValid THEN 0 ELSE 1)

\* lines 605-628
verifyChainIntegrity ==
    LET invalidCount == invalidUpTo(Len(allRecords))
    IN  IF invalidCount > 0
        THEN [isValid |-> FALSE, invalidCount |-> invalidCount,
              status |-> "Invalid voiceprints detected in chain"]
        ELSE [isValid |-> TRUE, invalidCount |-> 0,
              status |-> "All voiceprints valid"]

-----------------------------------------------------------------------------
(* verifyAndStore, lines 534-598 *)

\* lines 539-543 with < for <= (a faulty variant)
FreshStrict(report) ==
    /\ blockTimestamp >= report.timestamp
    /\ blockTimestamp - report.timestamp < maxStaleness

\* lines 539-543; && evaluates the subtraction only when it cannot underflow
Fresh(report) ==
    /\ blockTimestamp >= report.timestamp
    /\ blockTimestamp - report.timestamp <= maxStaleness

\* line 546 with the lookup lost (a faulty variant)
HashNeverUsed(report) == FALSE

\* line 546
HashUsed(report) == report.ivHash \in usedIvHash

\* line 568 accepting the signature of any account the contract has dealt
\* with, a replaced signer included (a faulty variant)
SignedByAnyAccount(report, signature) ==
    recover(Digest(report), signature) \in Accounts

\* line 568 comparing with the owner instead of the oracle signer (a faulty variant)
SignedByOwner(report, signature) ==
    recover(Digest(report), signature) = owner

\* lines 556-568
SignedByOracle(report, signature) ==
    recover(Digest(report), signature) = oracleSigner

Reverted(reason, detail, emitted) ==
    [reverted |-> TRUE, reason |-> reason, detail |-> detail,
     emitted |-> emitted, txId |-> <<>>]

Returned(txId, emitted) ==
    [reverted |-> FALSE, reason |-> "", detail |-> "",
     emitted |-> emitted, txId |-> txId]

\* line 551
ValidationFailed(ivHash, reason, caller) ==
    [event |-> "ValidationFailed", ivHash |-> ivHash, reason |-> reason,
     caller |-> caller]

\* line 595
IVRecordStored(txId, report, caller) ==
    [event |-> "IVRecordStored", txId |-> txId, ivHash |-> report.ivHash,
     identity |-> report.identity, pubkey |-> report.pubkey, caller |-> caller]

\* lines 538-597 with a check that the sender is the oracle signer in front
\* (a faulty variant)
ExecuteFromSignerOnly(caller, report, signature, verdict) ==
    IF caller # oracleSigner THEN Reverted("Invalid oracle signature", "", <<>>)
    ELSE IF ~Fresh(report) THEN Reverted("Report too stale", "", <<>>)
    ELSE IF HashUsed(report) THEN Reverted("IV hash already used", "", <<>>)
    ELSE IF verdict.panic THEN Reverted("Panic", "", <<>>)
    ELSE IF ~verdict.isValid
         THEN Reverted("Validation failed: ", verdict.reason,
                       <<ValidationFailed(report.ivHash, verdict.reason, caller)>>)
    ELSE IF ~SignedByOracle(report, signature)
         THEN Reverted("Invalid oracle signature", "", <<>>)
    ELSE
    LET txId == TxId(report.ivHash, blockNumber, blockTimestamp, caller)
    IN  Returned(txId, <<IVRecordStored(txId, report, caller)>>)

\* lines 538-597 with the signature check of lines 555-568 moved in front of
\* the validation of lines 548-553 (a faulty variant)
ExecuteSignatureFirst(caller, report, signature, verdict) ==
    IF ~Fresh(report) THEN Reverted("Report too stale", "", <<>>)
    ELSE IF HashUsed(report) THEN Reverted("IV hash already used", "", <<>>)
    ELSE IF ~SignedByOracle(report, signature)
         THEN Reverted("Invalid oracle signature", "", <<>>)
    ELSE IF verdict.panic THEN Reverted("Panic", "", <<>>)
    ELSE IF ~verdict.isValid
         THEN Reverted("Validation failed: ", verdict.reason,
                       <<ValidationFailed(report.ivHash, verdict.reason, caller)>>)
    ELSE
    LET txId == TxId(report.ivHash, blockNumber, blockTimestamp, caller)
    IN  Returned(txId, <<IVRecordStored(txId, report, caller)>>)

\* lines 538-597 with the duplicate check of line 546 in front of the
\* freshness check of lines 539-543 (a faulty variant)
ExecuteDuplicateFirst(caller, report, signature, verdict) ==
    IF HashUsed(report) THEN Reverted("IV hash already used", "", <<>>)
    ELSE IF ~Fresh(report) THEN Reverted("Report too stale", "", <<>>)
    ELSE IF verdict.panic THEN Reverted("Panic", "", <<>>)
    ELSE IF ~verdict.isValid
         THEN Reverted("Validation failed: ", verdict.reason,
                       <<ValidationFailed(report.ivHash, verdict.reason, caller)>>)
    ELSE IF ~SignedByOracle(report, signature)
         THEN Reverted("Invalid oracle signature", "", <<>>)
    ELSE
    LET txId == TxId(report.ivHash, blockNumber, blockTimestamp, caller)
    IN  Returned(txId, <<IVRecordStored(txId, report, caller)>>)

\* lines 538-597, given the verdict of line 549: the path the call takes, with
\* the events emitted on it
ExecuteWith(caller, report, signature, verdict) ==
    IF ~Fresh(report) THEN Reverted("Report too stale", "", <<>>)
    ELSE IF HashUsed(report) THEN Reverted("IV hash already used", "", <<>>)
    ELSE IF verdict.panic THEN Reverted("Panic", "", <<>>)
    ELSE IF ~verdict.isValid
         THEN Reverted("Validation failed: ", verdict.reason,
                       <<ValidationFailed(report.ivHash, verdict.reason, caller)>>)
    ELSE IF ~SignedByOracle(report, signature)
         THEN Reverted("Invalid oracle signature", "", <<>>)
    ELSE
    LET txId == TxId(report.ivHash, blockNumber, blockTimestamp, caller)
    IN  Returned(txId, <<IVRecordStored(txId, report, caller)>>)

\* lines 538-597 without the validation of lines 549-553 (a faulty variant)
ExecuteUnvalidated(caller, report, signature) ==
    ExecuteWith(caller, report, signature, Verdict(TRUE, ""))

\* lines 538-597
Execute(caller, report, signature) ==
    ExecuteWith(caller, report, signature, validateIV7Data(report.iv7Data))

\* lines 580-588 taking the time of the block for the report's (a faulty variant)
NewRecordBlockTime(report) ==
    [identity |-> report.identity, pubkey |-> report.pubkey,
     ivHash |-> report.ivHash, iv7Data |-> report.iv7Data,
     timestamp |-> blockTimestamp, blockNumber |-> blockNumber,
     isValid |-> TRUE]

\* lines 580-588
NewRecord(report) ==
    [identity |-> report.identity, pubkey |-> report.pubkey,
     ivHash |-> report.ivHash, iv7Data |-> report.iv7Data,
     timestamp |-> report.timestamp, blockNumber |-> blockNumber,
     isValid |-> TRUE]

\* a mapping left with the assigned slot only (a faulty variant)
AssignAlone(mapping, key, value) == [k \in {key} |-> value]

\* a mapping with one slot assigned
Assign(mapping, key, value) ==
    [k \in DOMAIN mapping \cup {key} |-> IF k = key THEN value ELSE mapping[k]]

\* lines 579-593 without the push of line 592 (a faulty variant)
StoreUnlisted(caller, report, outcome) ==
    /\ usedIvHash' = usedIvHash \cup {report.ivHash}
    /\ ivRecords' = Assign(ivRecords, outcome.txId, NewRecord(report))
    /\ userRecords' = [userRecords EXCEPT ![caller] = Append(@, outcome.txId)]
    /\ allRecords' = allRecords
    /\ totalRecords' = totalRecords + 1
    /\ logs' = logs \o outcome.emitted

\* lines 579-593
Store(caller, report, outcome) ==
    /\ usedIvHash' = usedIvHash \cup {report.ivHash}
    /\ ivRecords' = Assign(ivRecords, outcome.txId, NewRecord(report))
    /\ userRecords' = [userRecords EXCEPT ![caller] = Append(@, outcome.txId)]
    /\ allRecords' = Append(allRecords, outcome.txId)
    /\ totalRecords' = totalRecords + 1
    /\ logs' = logs \o outcome.emitted

\* the hash is marked before the checks and the failure is returned, not
\* reverted (a faulty variant)
CommitMarksHash(caller, report, outcome) ==
    IF outcome.reverted
    THEN /\ usedIvHash' = usedIvHash \cup {report.ivHash}
         /\ UNCHANGED <<ivRecords, userRecords, allRecords, totalRecords, logs>>
    ELSE Store(caller, report, outcome)

\* a report that fails validation has its hash marked and the failure is
\* returned, not reverted (a faulty variant)
CommitMarksInvalid(caller, report, outcome) ==
    IF outcome.reverted
    THEN /\ usedIvHash' = IF outcome.reason = "Validation failed: "
                          THEN usedIvHash \cup {report.ivHash}
                          ELSE usedIvHash
         /\ UNCHANGED <<ivRecords, userRecords, allRecords, totalRecords, logs>>
    ELSE Store(caller, report, outcome)

\* line 592 putting the new txId first (a faulty variant)
CommitInFront(caller, report, outcome) ==
    IF outcome.reverted
    THEN UNCHANGED <<ledgerVars, logs>>
    ELSE /\ usedIvHash' = usedIvHash \cup {report.ivHash}
         /\ ivRecords' = Assign(ivRecords, outcome.txId, NewRecord(report))
         /\ userRecords' = [userRecords EXCEPT ![caller] = Append(@, outcome.txId)]
         /\ allRecords' = <<outcome.txId>> \o allRecords
         /\ totalRecords' = totalRecords + 1
         /\ logs' = logs \o outcome.emitted

\* the events of a reverted call stay in the log (a faulty variant)
CommitKeepsEvents(caller, report, outcome) ==
    IF outcome.reverted
    THEN /\ logs' = logs \o outcome.emitted
         /\ UNCHANGED ledgerVars
    ELSE Store(caller, report, outcome)

\* the storage writes and events of lines 579-595, which a revert undoes
Commit(caller, report, outcome) ==
    IF outcome.reverted
    THEN UNCHANGED <<ledgerVars, logs>>
    ELSE Store(caller, report, outcome)

verifyAndStore(caller, report, signature) ==
    LET outcome == Execute(caller, report, signature)
    IN  /\ ~outcome.reverted => totalRecords < MaxRecords
        /\ Commit(caller, report, outcome)
        /\ last' = [op |-> "verifyAndStore", caller |-> caller, report |-> report,
                    signer |-> recover(Digest(report), signature),
                    outcome |-> outcome, pre |-> Storage]
        /\ UNCHANGED <<owner, oracleSigner, maxStaleness, blockNumber,
                       blockTimestamp>>

-----------------------------------------------------------------------------
(* Owner operations, lines 652-664; onlyOwner is Ownable's modifier *)

\* the modifier letting the oracle signer in as well (a faulty variant)
OnlyOwnerOrSigner(caller) ==
    IF caller = owner \/ caller = oracleSigner
    THEN Returned(<<>>, <<>>)
    ELSE Reverted("Ownable: caller is not the owner", "", <<>>)

OnlyOwner(caller) ==
    IF caller = owner
    THEN Returned(<<>>, <<>>)
    ELSE Reverted("Ownable: caller is not the owner", "", <<>>)

\* lines 655-657 clearing the used hashes with the signer that signed them
\* (a faulty variant)
updateOracleSignerForgetting(caller, newSigner) ==
    LET outcome == OnlyOwner(caller)
    IN  /\ oracleSigner' = IF outcome.reverted THEN oracleSigner ELSE newSigner
        /\ usedIvHash' = IF outcome.reverted THEN usedIvHash ELSE {}
        /\ last' = [op |-> "updateOracleSigner", caller |-> caller,
                    arg |-> newSigner, outcome |-> outcome, pre |-> Storage]
        /\ UNCHANGED <<owner, maxStaleness, ivRecords, userRecords, totalRecords,
                       allRecords, logs, blockNumber, blockTimestamp>>

updateOracleSigner(caller, newSigner) ==
    LET outcome == OnlyOwner(caller)
    IN  /\ oracleSigner' = IF outcome.reverted THEN oracleSigner ELSE newSigner
        /\ last' = [op |-> "updateOracleSigner", caller |-> caller,
                    arg |-> newSigner, outcome |-> outcome, pre |-> Storage]
        /\ UNCHANGED <<owner, maxStaleness, ledgerVars, logs, blockNumber,
                       blockTimestamp>>

updateMaxStaleness(caller, newStaleness) ==
    LET outcome == OnlyOwner(caller)
    IN  /\ maxStaleness' = IF outcome.reverted THEN maxStaleness ELSE newStaleness
        /\ last' = [op |-> "updateMaxStaleness", caller |-> caller,
                    arg |-> newStaleness, outcome |-> outcome, pre |-> Storage]
        /\ UNCHANGED <<owner, oracleSigner, ledgerVars, logs, blockNumber,
                       blockTimestamp>>

-----------------------------------------------------------------------------
(* The chain the contract runs on: the next block, some seconds later *)

MineBlock ==
    /\ blockNumber <= MaxBlock
    /\ blockNumber' = blockNumber + 1
    /\ \E seconds \in BlockIntervals : blockTimestamp' = blockTimestamp + seconds
    /\ last' = [op |-> "block", pre |-> Storage]
    /\ UNCHANGED <<owner, oracleSigner, maxStaleness, ledgerVars, logs>>

-----------------------------------------------------------------------------
(* Deployment, constructor lines 418-420 and the initialisers of lines 362-380 *)

\* deployment without the initialiser of line 363 (a faulty variant)
DeployedWithoutStaleness ==
    /\ owner = Deployer
    /\ oracleSigner \in Accounts
    /\ maxStaleness = 0
    /\ usedIvHash = {}
    /\ ivRecords = <<>>
    /\ userRecords = [a \in Accounts |-> <<>>]
    /\ totalRecords = 0
    /\ allRecords = <<>>
    /\ blockNumber = 1
    /\ blockTimestamp = DeployTime
    /\ logs = <<>>

Deployed ==
    /\ owner = Deployer
    /\ oracleSigner \in Accounts
    /\ maxStaleness = TEN_MINUTES
    /\ usedIvHash = {}
    /\ ivRecords = <<>>
    /\ userRecords = [a \in Accounts |-> <<>>]
    /\ totalRecords = 0
    /\ allRecords = <<>>
    /\ blockNumber = 1
    /\ blockTimestamp = DeployTime
    /\ logs = <<>>

NoBatch == [submitted |-> {}, waiting |-> {}]

Init ==
    /\ Deployed
    /\ pending = NoBatch
    /\ last = [op |-> "constructor", signer |-> oracleSigner]

Next ==
    \/ \E caller \in Accounts, report \in Reports :
         \E signature \in SignaturesFor(report) :
            verifyAndStore(caller, report, signature) /\ UNCHANGED pending
    \/ \E caller \in Accounts, newSigner \in Accounts :
         updateOracleSigner(caller, newSigner) /\ UNCHANGED pending
    \/ \E caller \in Accounts, newStaleness \in StalenessChoices :
         updateMaxStaleness(caller, newStaleness) /\ UNCHANGED pending
    \/ MineBlock /\ UNCHANGED pending

Spec == Init /\ [][Next]_vars

-----------------------------------------------------------------------------
(* validateIV7Data called on its own (it is public and pure): the argument   *)
(* is drawn from the vectors below, the call returns its verdict.            *)

badRangeIV     == <<5, 800, 1500, 900, 1100, 1300, 1000>>       \* part_001 line 38
highVarianceIV == <<10, 2900, 50, 2800, 20, 2950, 10>>          \* part_001 line 53
duplicateIV    == <<1000, 1000, 1000, 1000, 1001, 1002, 1003>>  \* part_001 line 60
documentedIV   == <<1200, 800, 1500, 900, 1100, 1300, 1000>>    \* part_000 line 147
badVoiceprint  == <<50, 3500, 10, 4000, 80, 5000, 30>>          \* test-contract.js lines 45-53

guideTooHighIV   == <<15000, 800, 1500, 900, 1100, 1300, 1000>>  \* DEPLOYMENT_GUIDE.md line 140
guideMonotonicIV == <<100, 300, 500, 700, 900, 1100, 1300>>       \* DEPLOYMENT_GUIDE.md line 141

SourceVectors ==
    {validIV, reversedIV, monotonicIV, badRangeIV, highVarianceIV, duplicateIV,
     documentedIV, badVoiceprint, guideTooHighIV, guideMonotonicIV}

\* values at and beside the limits of the range check, and the largest word
EdgeValues == {0, MIN_VALUE - 1, MIN_VALUE, MAX_VALUE, MAX_VALUE + 1, UINT_MAX}

\* a source vector with up to two elements replaced by edge values
EdgedVectors ==
    {[[v EXCEPT ![i] = x] EXCEPT ![j] = y] :
        v \in SourceVectors, i \in 1..7, j \in 1..7, x \in EdgeValues, y \in EdgeValues}

\* all vectors over four values: below and at the lower limit, around the
\* middle of the range, at and above the upper limit
LowValues == {MIN_VALUE - 1, MIN_VALUE, 20, 30}
MidValues == {980, 1000, 1020, 1040}
HighValues == {2980, 2990, MAX_VALUE, MAX_VALUE + 1}

\* four values whose vectors have variances on both sides of MIN_VARIANCE
\* and of MAX_VARIANCE, 49, 50, 1200 and 1201 included
VarianceValues == {1000, 1007, 1016, 1077}

\* values whose differences are MAX_RANGE and MAX_RANGE + 1
SpreadLows == {MIN_VALUE, MIN_VALUE + 1, MAX_VALUE - MAX_RANGE}
SpreadHighs == {MIN_VALUE + MAX_RANGE, MIN_VALUE + MAX_RANGE + 1, MAX_VALUE}

\* an accepted, a rising or a falling vector with one element replaced by a
\* low and another by a high value
SpreadVectors ==
    {[[v EXCEPT ![i] = x] EXCEPT ![j] = y] :
        v \in {validIV, <<1000, 1010, 1020, 1030, 1040, 1050, 1060>>,
                        <<1060, 1050, 1040, 1030, 1020, 1010, 1000>>},
        i \in 1..7, j \in 1..7, x \in SpreadLows, y \in SpreadHighs}

\* the ends of the word: vectors whose sum or whose differences would leave
\* the word if they were computed
WordValues == {0, MAX_VALUE, UINT_MAX}

\* two low and two high values whose differences are ALTERNATION_THRESHOLD
\* and more, and whose spread is within MAX_RANGE
AlternationValues ==
    {500, 600, 600 + ALTERNATION_THRESHOLD, 600 + ALTERNATION_THRESHOLD + 100}

VectorInputs ==
    SourceVectors \cup EdgedVectors \cup [1..7 -> LowValues]
        \cup [1..7 -> MidValues] \cup [1..7 -> HighValues]
        \cup [1..7 -> VarianceValues] \cup SpreadVectors
        \cup [1..7 -> WordValues] \cup [1..7 -> AlternationValues]

InitValidator ==
    /\ Deployed
    /\ pending = NoBatch
    /\ \E iv7Data \in VectorInputs : last = [op |-> "argument", iv7Data |-> iv7Data]

CallValidateIV7Data ==
    /\ last.op = "argument"
    /\ last' = [op |-> "validateIV7Data", iv7Data |-> last.iv7Data,
                ret |-> validateIV7Data(last.iv7Data), pre |-> Storage]
    /\ UNCHANGED <<owner, oracleSigner, maxStaleness, ledgerVars, blockNumber,
                   blockTimestamp, logs, pending>>

SpecValidator == InitValidator /\ [][CallValidateIV7Data]_vars

-----------------------------------------------------------------------------
(* Calls submitted together: a batch of calls, each of which would succeed   *)
(* if it were the only one, is executed in one block in any order.           *)

BatchReports ==
    [identity : {"test_user_1"}, pubkey : Pubkeys, ivHash : IvHashes \cup {"h3"},
     iv7Data : {validIV, reversedIV}, timestamp : ReportTimes]

BatchCalls ==
    {[caller |-> caller, report |-> report, signature |-> Signature(account, report)] :
        caller \in Accounts, report \in BatchReports, account \in Accounts}

Admissible(call) == ~Execute(call.caller, call.report, call.signature).reverted

InitConcurrent ==
    /\ Deployed
    /\ \E batch \in SUBSET {call \in BatchCalls : Admissible(call)} :
          /\ Cardinality(batch) \in 1..MaxBatch
          /\ pending = [submitted |-> batch, waiting |-> batch]
    /\ last = [op |-> "constructor", signer |-> oracleSigner]

NextConcurrent ==
    \E call \in pending.waiting :
        /\ verifyAndStore(call.caller, call.report, call.signature)
        /\ pending' = [pending EXCEPT !.waiting = @ \ {call}]

SpecConcurrent == InitConcurrent /\ [][NextConcurrent]_vars

-----------------------------------------------------------------------------
(* Storage changed behind the contract's back: the vector of one stored      *)
(* record is overwritten in place, once, and the ledger is then inspected.   *)

Corrupt(txId, iv7Data) ==
    /\ txId \in DOMAIN ivRecords
    /\ iv7Data # ivRecords[txId].iv7Data
    /\ ivRecords' = [ivRecords EXCEPT ![txId].iv7Data = iv7Data]
    /\ last' = [op |-> "corrupt", txId |-> txId, iv7Data |-> iv7Data,
                pre |-> Storage]
    /\ UNCHANGED <<owner, oracleSigner, maxStaleness, usedIvHash, userRecords,
                   totalRecords, allRecords, blockNumber, blockTimestamp, logs,
                   pending>>

NextTamper ==
    \/ last.op # "corrupt" /\ Next
    \/ /\ last.op # "corrupt"
       /\ \E txId \in DOMAIN ivRecords, iv7Data \in ReportVectors :
             Corrupt(txId, iv7Data)

SpecTamper == Init /\ [][NextTamper]_vars

-----------------------------------------------------------------------------
(* The view functions called as the contract runs, on an intact ledger and   *)
(* on one whose stored vectors were overwritten in place.  A view returns    *)
(* and the behaviour ends there: what follows a view follows the state       *)
(* before it.                                                                *)

ViewOps == {"verifyChainIntegrity", "getRecord", "getUserRecords", "validateIV7Data"}

\* what a view leaves alone: everything
ViewFrame ==
    UNCHANGED <<owner, oracleSigner, maxStaleness, ledgerVars, blockNumber,
                blockTimestamp, logs, pending>>

\* lines 605-628, called
CallVerifyChainIntegrity ==
    /\ last' = [op |-> "verifyChainIntegrity", ret |-> verifyChainIntegrity,
                pre |-> Storage]
    /\ ViewFrame

\* the ids looked up: the stored ones, the ones a call in this block would
\* get, and one of a block that never was
LookupIds ==
    DOMAIN ivRecords
        \cup {TxId(h, blockNumber, blockTimestamp, a) : h \in IvHashes, a \in Accounts}
        \cup {TxId("h1", 0, 0, Deployer)}

\* lines 633-639, called
CallGetRecord(txId) ==
    /\ last' = [op |-> "getRecord", txId |-> txId, ret |-> getRecord(txId),
                reverted |-> FALSE, pre |-> Storage]
    /\ ViewFrame

\* lines 644-650, called
CallGetUserRecords(user) ==
    /\ last' = [op |-> "getUserRecords", user |-> user,
                ret |-> getUserRecords(user), pre |-> Storage]
    /\ ViewFrame

\* lines 428-526, called on the deployed contract
CallValidateIV7DataOn(iv7Data) ==
    /\ last' = [op |-> "validateIV7Data", iv7Data |-> iv7Data,
                ret |-> validateIV7Data(iv7Data), pre |-> Storage]
    /\ ViewFrame

View ==
    \/ CallVerifyChainIntegrity
    \/ \E txId \in LookupIds : CallGetRecord(txId)
    \/ \E user \in Accounts : CallGetUserRecords(user)
    \/ \E iv7Data \in ReportVectors : CallValidateIV7DataOn(iv7Data)

NextViews ==
    \/ last.op \notin ViewOps \cup {"corrupt"} /\ Next
    \/ /\ last.op \notin ViewOps
       /\ \E txId \in DOMAIN ivRecords, iv7Data \in ReportVectors :
             Corrupt(txId, iv7Data)
    \/ last.op \notin ViewOps /\ View

SpecViews == Init /\ [][NextViews]_vars

-----------------------------------------------------------------------------
(* A rotation of the signer: the contract is deployed with the deployer as   *)
(* oracle signer (as part_001 line 15 deploys it) and the owner replaces the *)
(* signer once, by another account; reports are submitted before and after.  *)

PreviousSigner == Deployer
NewSigner == "user1"

InitRotation == Init /\ oracleSigner = PreviousSigner

NextRotation ==
    \/ \E caller \in Accounts, report \in Reports :
         \E signature \in SignaturesFor(report) :
            verifyAndStore(caller, report, signature) /\ UNCHANGED pending
    \/ /\ oracleSigner = PreviousSigner
       /\ updateOracleSigner(owner, NewSigner)
       /\ UNCHANGED pending
    \/ \E newStaleness \in StalenessChoices :
         updateMaxStaleness(owner, newStaleness) /\ UNCHANGED pending
    \/ MineBlock /\ UNCHANGED pending

SpecRotation == InitRotation /\ [][NextRotation]_vars

-----------------------------------------------------------------------------
(* Reports turned away and tried again: the sender keeps, for every call     *)
(* that was rejected as stale, as failing validation or as wrongly signed,   *)
(* the ivHash and the reason, and goes on submitting.  The contract is       *)
(* deployed with the deployer as oracle signer and keeps its settings.       *)

RetryReasons ==
    {"Report too stale", "Validation failed: ", "Invalid oracle signature"}

\* what the sender notes of a call and its outcome
TurnedAway(report, outcome) ==
    IF outcome.reverted /\ outcome.reason \in RetryReasons
    THEN {[ivHash |-> report.ivHash, reason |-> outcome.reason]}
    ELSE {}

SubmitAndNote(caller, report, signature) ==
    /\ verifyAndStore(caller, report, signature)
    /\ pending' = [pending EXCEPT
                      !.waiting = @ \cup TurnedAway(report,
                                        Execute(caller, report, signature))]

\* the account that sends the reports, as in part_001 line 104
Sender == "user1"

NextRetry ==
    \/ \E report \in Reports :
         \E signature \in SignaturesFor(report) :
            SubmitAndNote(Sender, report, signature)
    \/ MineBlock /\ UNCHANGED pending

SpecRetry == InitRotation /\ [][NextRetry]_vars

-----------------------------------------------------------------------------
(* What the latest call was, read from last *)

Submitted == last.op = "verifyAndStore"
Rejected == Submitted /\ last.outcome.reverted
RejectedAs(reason) == Rejected /\ last.outcome.reason = reason
Stored == Submitted /\ ~last.outcome.reverted

\* the ledger before the latest call
LedgerOf(storage) ==
    <<storage.usedIvHash, storage.ivRecords, storage.userRecords,
      storage.totalRecords, storage.allRecords>>

Ledger == LedgerOf(Storage)

\* block time minus report time, at the latest call
AgeAtCall == last.pre.blockTimestamp - last.report.timestamp

WasFresh == AgeAtCall >= 0 /\ AgeAtCall <= last.pre.maxStaleness
WasUnused == last.report.ivHash \notin last.pre.usedIvHash
WasValid == validateIV7Data(last.report.iv7Data).isValid
WasSignedByOracle == last.signer = last.pre.oracleSigner

StoredRecords == {ivRecords[txId] : txId \in DOMAIN ivRecords}

-----------------------------------------------------------------------------
\* C1: at most one stored record carries a given ivHash, and a verifyAndStore
\* whose report.ivHash was already stored is rejected, whatever its other
\* fields, its signature and its caller are.
C1_SingleUseHash ==
    /\ \A t1, t2 \in DOMAIN ivRecords :
          ivRecords[t1].ivHash = ivRecords[t2].ivHash => t1 = t2
    /\ Cardinality(DOMAIN ivRecords) = Len(allRecords)
    /\ (Submitted /\ ~WasUnused) => Rejected /\ Ledger = LedgerOf(last.pre)

\* a report that only the used hash makes inadmissible, and that differs from
\* the stored record of that hash
C1_Witness ==
    /\ RejectedAs("IV hash already used")
    /\ WasFresh /\ WasValid /\ WasSignedByOracle
    /\ \E record \in StoredRecords :
          /\ record.ivHash = last.report.ivHash
          /\ record.iv7Data # last.report.iv7Data

\* C2: every rejected verifyAndStore leaves usedIvHash, ivRecords, allRecords,
\* userRecords and totalRecords exactly as they were before the call.
C2_RejectionLeavesLedger ==
    Rejected => Ledger = LedgerOf(last.pre)

\* a report rejected after its ValidationFailed event, on a ledger that holds a record
C2_Witness ==
    /\ RejectedAs("Validation failed: ")
    /\ last.outcome.emitted # <<>>
    /\ totalRecords >= 1
    /\ WasUnused

\* C3: a fresh, unused report with a valid vector whose signature is not the
\* current oracleSigner's is rejected with "Invalid oracle signature", and
\* nothing is stored.
C3_ForeignSignatureRejected ==
    /\ (Submitted /\ ~WasSignedByOracle) => Rejected /\ Ledger = LedgerOf(last.pre)
    /\ (Submitted /\ WasFresh /\ WasUnused /\ WasValid /\ ~WasSignedByOracle)
          => RejectedAs("Invalid oracle signature")

\* the report is signed by the owner, who is an account but not the oracle signer
C3_Witness ==
    /\ RejectedAs("Invalid oracle signature")
    /\ last.signer = owner
    /\ last.signer # last.pre.oracleSigner
    /\ WasFresh /\ WasUnused /\ WasValid

\* C4: verifyAndStore rejects a report whose timestamp is later than the block
\* time or older than maxStaleness (10 minutes after deployment) as too stale,
\* and does not reject for staleness an age from 0 to maxStaleness inclusive.
C4_FreshnessWindow ==
    /\ last.op = "constructor" => maxStaleness = TEN_MINUTES
    /\ Submitted =>
         /\ (AgeAtCall < 0 \/ AgeAtCall > last.pre.maxStaleness)
                => RejectedAs("Report too stale")
         /\ (AgeAtCall >= 0 /\ AgeAtCall <= last.pre.maxStaleness)
                => ~RejectedAs("Report too stale")

\* a report exactly maxStaleness old is stored
C4_Witness ==
    /\ Stored
    /\ AgeAtCall = last.pre.maxStaleness
    /\ AgeAtCall = TEN_MINUTES

\* C5: a fresh, unused, valid report signed by the current oracleSigner is
\* stored for any caller: totalRecords grows by 1, one IVRecordStored event is
\* emitted, and getRecord(txId) returns the report's fields with isValid = TRUE.
C5_AdmissibleReportStored ==
    (Submitted /\ WasFresh /\ WasUnused /\ WasValid /\ WasSignedByOracle)
        => /\ Stored
           /\ totalRecords = last.pre.totalRecords + 1
           /\ logs = Append(last.pre.logs,
                            IVRecordStored(last.outcome.txId, last.report,
                                           last.caller))
           /\ LET record == getRecord(last.outcome.txId)
              IN  /\ record.identity = last.report.identity
                  /\ record.pubkey = last.report.pubkey
                  /\ record.ivHash = last.report.ivHash
                  /\ record.iv7Data = last.report.iv7Data
                  /\ record.timestamp = last.report.timestamp
                  /\ record.isValid = TRUE

\* the second record is stored by a caller that is neither the signer nor the
\* owner, from a report older than the block
C5_Witness ==
    /\ Stored
    /\ last.caller # last.pre.oracleSigner
    /\ last.caller # owner
    /\ AgeAtCall > 0
    /\ totalRecords = 2

-----------------------------------------------------------------------------
\* the blockNumber fields along allRecords
BlockNumbers == [i \in 1..Len(allRecords) |-> getRecord(allRecords[i]).blockNumber]

\* the fields of a stored IVRecord (lines 382-390)
RecordFields ==
    {"identity", "pubkey", "ivHash", "iv7Data", "timestamp", "blockNumber", "isValid"}

C7_ChainAlwaysValid ==
    /\ verifyChainIntegrity =
          [isValid |-> TRUE, invalidCount |-> 0, status |-> "All voiceprints valid"]
    /\ \A record \in StoredRecords : validateIV7Data(record.iv7Data).isValid

\* two records are stored, the signer and the staleness limit have been changed
C7_Witness ==
    /\ totalRecords = 2
    /\ verifyChainIntegrity.isValid
    /\ oracleSigner # owner
    /\ maxStaleness # TEN_MINUTES

-----------------------------------------------------------------------------
Corrupted == last.op = "corrupt"

-----------------------------------------------------------------------------
\* the calls of the batch that were executed, and the hashes they carry
Executed == pending.submitted \ pending.waiting
HashesOf(calls) == {call.report.ivHash : call \in calls}
CallsWith(calls, ivHash) == {call \in calls : call.report.ivHash = ivHash}

\* the record a call stores when it succeeds in the block of the batch
StoredBy(call, txId) ==
    /\ txId = TxId(call.report.ivHash, blockNumber, blockTimestamp, call.caller)
    /\ txId \in DOMAIN ivRecords
    /\ ivRecords[txId].identity = call.report.identity
    /\ ivRecords[txId].iv7Data = call.report.iv7Data
    /\ ivRecords[txId].ivHash = call.report.ivHash
    /\ \E i \in 1..Len(userRecords[call.caller]) : userRecords[call.caller][i] = txId

\* C9: K calls submitted together, each admissible on its own, with pairwise
\* distinct ivHash, produce exactly K records in every order of execution (K
\* distinct txIds in allRecords, none lost or overwritten); of the calls that
\* carry the same ivHash exactly one succeeds.
C9_ConcurrentStores ==
    /\ totalRecords = Cardinality(HashesOf(Executed))
    /\ Len(allRecords) = totalRecords
    /\ Cardinality({allRecords[i] : i \in 1..Len(allRecords)}) = totalRecords
    /\ Cardinality(DOMAIN ivRecords) = totalRecords
    /\ \A ivHash \in HashesOf(Executed) :
          Cardinality({call \in CallsWith(Executed, ivHash) :
                          \E i \in 1..Len(allRecords) : StoredBy(call, allRecords[i])}) >= 1
    /\ \A i \in 1..Len(allRecords) :
          Cardinality({j \in 1..Len(allRecords) :
                          getRecord(allRecords[j]).ivHash
                              = getRecord(allRecords[i]).ivHash}) = 1
    /\ (Submitted /\ Cardinality(CallsWith(Executed, last.report.ivHash)) = 1)
          => Stored
    /\ (Submitted /\ ~WasUnused) => Rejected

\* three calls of one sender with three hashes were executed in one block
C9_Witness ==
    /\ pending.waiting = {}
    /\ Cardinality(pending.submitted) = 3
    /\ Cardinality(HashesOf(pending.submitted)) = 3
    /\ Cardinality({call.caller : call \in pending.submitted}) = 1
    /\ totalRecords = 3

-----------------------------------------------------------------------------
Validated == last.op = "validateIV7Data"

OutOfRange(iv7Data) == \E i \in 1..7 : iv7Data[i] < 10 \/ iv7Data[i] > 3000

\* C10: validateIV7Data rejects with "Value outside valid range" every vector
\* that has an element below 10 or above 3000, whatever its other elements are
\* and whatever later check it would fail as well.
C10_OutOfRangeRejected ==
    (Validated /\ OutOfRange(last.iv7Data))
        => last.ret = [isValid |-> FALSE, reason |-> "Value outside valid range",
                       panic |-> FALSE]

\* only the last element is out of range, it is above the limit, and the six
\* others would by themselves pass every later check
C10_Witness ==
    /\ Validated
    /\ last.iv7Data = <<2980, MAX_VALUE, 2990, MAX_VALUE, 2980, 2990, MAX_VALUE + 1>>
    /\ validateIV7Data([last.iv7Data EXCEPT ![7] = MAX_VALUE - 1]).isValid
    /\ last.ret.reason = "Value outside valid range"

-----------------------------------------------------------------------------
(* The checks of the validator stated on the vector itself: sums over the    *)
(* seven elements, sets of values, no loop and no checked arithmetic.        *)

InRange(iv7Data) == \A i \in 1..7 : 10 <= iv7Data[i] /\ iv7Data[i] <= 3000

Values(iv7Data) == {iv7Data[i] : i \in 1..7}
Largest(iv7Data) == CHOOSE x \in Values(iv7Data) : \A y \in Values(iv7Data) : y <= x
Smallest(iv7Data) == CHOOSE x \in Values(iv7Data) : \A y \in Values(iv7Data) : x <= y
SpreadOf(iv7Data) == Largest(iv7Data) - Smallest(iv7Data)

Total(iv7Data) ==
    iv7Data[1] + iv7Data[2] + iv7Data[3] + iv7Data[4] + iv7Data[5] + iv7Data[6]
        + iv7Data[7]
FloorMean(iv7Data) == Total(iv7Data) \div 7
Square(x) == x * x
SquaredDeviations(iv7Data) ==
    LET m == FloorMean(iv7Data)
    IN  Square(iv7Data[1] - m) + Square(iv7Data[2] - m) + Square(iv7Data[3] - m)
        + Square(iv7Data[4] - m) + Square(iv7Data[5] - m) + Square(iv7Data[6] - m)
        + Square(iv7Data[7] - m)
VarianceOf(iv7Data) == SquaredDeviations(iv7Data) \div 7

NonDecreasing(iv7Data) == \A i \in 1..6 : iv7Data[i] <= iv7Data[i + 1]
NonIncreasing(iv7Data) == \A i \in 1..6 : iv7Data[i] >= iv7Data[i + 1]
DistinctValues(iv7Data) == Cardinality(Values(iv7Data))
Distance(a, b) == IF a >= b THEN a - b ELSE b - a
ExtremePairs(iv7Data) ==
    Cardinality({i \in 1..6 : Distance(iv7Data[i], iv7Data[i + 1]) > 1500})

Rejection(reason) == [isValid |-> FALSE, reason |-> reason, panic |-> FALSE]
Acceptance == [isValid |-> TRUE, reason |-> "", panic |-> FALSE]

\* the checks in the stated order: the reason each one gives and whether the
\* vector fails it (the statistics are taken of in-range vectors only)
CheckOrder(iv7Data) ==
    LET inRange == InRange(iv7Data)
    IN  << [reason |-> "Value outside valid range", fails |-> ~inRange],
           [reason |-> "Value range too wide",
            fails  |-> inRange /\ SpreadOf(iv7Data) > 2500],
           [reason |-> "Variance too low - values too similar",
            fails  |-> inRange /\ VarianceOf(iv7Data) < 50],
           [reason |-> "Variance too high - values too scattered",
            fails  |-> inRange /\ VarianceOf(iv7Data) > 1200],
           [reason |-> "Monotonic increasing pattern detected",
            fails  |-> NonDecreasing(iv7Data)],
           [reason |-> "Monotonic decreasing pattern detected",
            fails  |-> NonIncreasing(iv7Data)],
           [reason |-> "Too many duplicate values",
            fails  |-> DistinctValues(iv7Data) < 4],
           [reason |-> "Too many extreme value alternations",
            fails  |-> inRange /\ ExtremePairs(iv7Data) > 3] >>

FailedChecks(iv7Data) == {k \in 1..8 : CheckOrder(iv7Data)[k].fails}
FirstFailed(iv7Data) ==
    CHOOSE k \in FailedChecks(iv7Data) : \A j \in FailedChecks(iv7Data) : k <= j

\* C11: validateIV7Data reports the reason of the first failing check in the
\* order range, spread, variance too low, variance too high, monotonicity,
\* uniqueness, alternation, whatever later checks the vector fails as well; a
\* non-decreasing or non-increasing vector whose variance exceeds 1200, such as
\* [100,200,300,400,500,600,700], is reported as variance too high.
C11_FirstFailingCheckReported ==
    Validated =>
        /\ FailedChecks(last.iv7Data) # {}
              => last.ret = Rejection(CheckOrder(last.iv7Data)
                                          [FirstFailed(last.iv7Data)].reason)
        /\ ( /\ InRange(last.iv7Data)
             /\ SpreadOf(last.iv7Data) <= 2500
             /\ VarianceOf(last.iv7Data) > 1200
             /\ NonDecreasing(last.iv7Data) \/ NonIncreasing(last.iv7Data) )
              => last.ret = Rejection("Variance too high - values too scattered")

\* the rising vector of the tests fails the variance check and the monotonic
\* pattern check, and the variance check is the one reported
C11_Witness ==
    /\ Validated
    /\ last.iv7Data = <<100, 200, 300, 400, 500, 600, 700>>
    /\ {4, 5} \subseteq FailedChecks(last.iv7Data)
    /\ FirstFailed(last.iv7Data) = 4
    /\ last.ret.reason = "Variance too high - values too scattered"

\* C12: validateIV7Data returns (true, "") for every vector that passes all
\* the checks, [1000,1020,980,1015,985,1025,990] among them, and whenever it
\* returns false the reason it returns is not empty.
C12_AcceptedWithEmptyReason ==
    Validated =>
        /\ FailedChecks(last.iv7Data) = {} => last.ret = Acceptance
        /\ last.iv7Data = <<1000, 1020, 980, 1015, 985, 1025, 990>>
              => last.ret = Acceptance
        /\ (~last.ret.panic /\ ~last.ret.isValid) => last.ret.reason # ""
        /\ last.ret.isValid => last.ret.reason = ""

\* the vector of the tests passes every check and is accepted
C12_Witness ==
    /\ Validated
    /\ last.iv7Data = <<1000, 1020, 980, 1015, 985, 1025, 990>>
    /\ FailedChecks(last.iv7Data) = {}
    /\ last.ret.isValid
    /\ last.ret.reason = ""

\* C13 (as stated): validateIV7Data accepts [1200,800,1500,900,1100,1300,1000],
\* the vector the documentation gives as valid IV data.
C13_DocumentedVectorAccepted ==
    (Validated /\ last.iv7Data = <<1200, 800, 1500, 900, 1100, 1300, 1000>>)
        => last.ret.isValid

\* what the code returns for that vector: its variance is 49796
C13_Witness ==
    /\ Validated
    /\ last.iv7Data = documentedIV
    /\ VarianceOf(last.iv7Data) = 49796
    /\ last.ret = Rejection("Variance too high - values too scattered")

\* C14: every vector that is non-decreasing over all six adjacent pairs, or
\* non-increasing over all six, is rejected by validateIV7Data, ties and
\* constant vectors included; one that passes the range, spread and variance
\* checks is rejected as a monotonic pattern of its direction.
C14_MonotonicRejected ==
    (Validated /\ (NonDecreasing(last.iv7Data) \/ NonIncreasing(last.iv7Data)))
        => /\ ~last.ret.panic
           /\ ~last.ret.isValid
           /\ FailedChecks(last.iv7Data) \cap {1, 2, 3, 4} = {}
                => last.ret = Rejection(IF NonDecreasing(last.iv7Data)
                                        THEN "Monotonic increasing pattern detected"
                                        ELSE "Monotonic decreasing pattern detected")

\* a falling vector with ties, four distinct values and a variance within the
\* limits: only the monotonic pattern check stops it
C14_Witness ==
    /\ Validated
    /\ last.iv7Data = <<1040, 1040, 1020, 1020, 1000, 980, 980>>
    /\ NonIncreasing(last.iv7Data)
    /\ FailedChecks(last.iv7Data) = {6}
    /\ last.ret = Rejection("Monotonic decreasing pattern detected")

\* the variance as lines 441-465 compute it
ComputedVariance(iv7Data) ==
    udiv(varianceSumUpTo(iv7Data, udiv(sumUpTo(iv7Data, 7), 7), 7), 7)

VarianceReasons ==
    {"Variance too low - values too similar",
     "Variance too high - values too scattered"}

\* C15: for every in-range vector with spread at most 2500 the variance that
\* validateIV7Data computes is floor(sum of (x_i - m)^2 / 7) with
\* m = floor(sum of x_i / 7); the vector is rejected as variance too low when
\* that is below 50, as variance too high when it is above 1200, and passes
\* the variance check exactly when it is 50..1200.
C15_VarianceCheck ==
    (Validated /\ InRange(last.iv7Data) /\ SpreadOf(last.iv7Data) <= 2500)
        => LET variance == VarianceOf(last.iv7Data)
           IN  /\ ComputedVariance(last.iv7Data) = variance
               /\ variance < 50
                    => last.ret = Rejection("Variance too low - values too similar")
               /\ variance > 1200
                    => last.ret = Rejection("Variance too high - values too scattered")
               /\ (50 <= variance /\ variance <= 1200)
                    <=> (~last.ret.panic /\ last.ret.reason \notin VarianceReasons)

\* a variance of exactly 1200 passes the variance check: the vector goes on to
\* the later checks and is stopped by the count of unique values
C15_Witness ==
    /\ Validated
    /\ last.iv7Data = <<1007, 1007, 1007, 1077, 1007, 1077, 1077>>
    /\ VarianceOf(last.iv7Data) = 1200
    /\ last.ret = Rejection("Too many duplicate values")

\* C16: every vector whose elements all lie in 10..3000 and whose largest
\* element exceeds its smallest by more than 2500 is rejected with "Value range
\* too wide", whatever its variance or pattern; a spread of exactly 2500 does
\* not fail this check.
C16_SpreadCheck ==
    (Validated /\ InRange(last.iv7Data))
        => /\ SpreadOf(last.iv7Data) > 2500
                => last.ret = Rejection("Value range too wide")
           /\ SpreadOf(last.iv7Data) <= 2500
                => (~last.ret.panic /\ last.ret.reason # "Value range too wide")

\* a spread of exactly 2500 gets past the spread check and is stopped by the
\* next one
C16_Witness ==
    /\ Validated
    /\ last.iv7Data = <<10, 2510, 980, 1015, 985, 1025, 990>>
    /\ SpreadOf(last.iv7Data) = 2500
    /\ last.ret = Rejection("Variance too high - values too scattered")

\* C17: for every vector that passes the range, spread, variance and
\* monotonicity checks, the uniqueCount of validateIV7Data is the number of
\* distinct values of the vector, and the vector is rejected with "Too many
\* duplicate values" exactly when that number is below 4.
C17_UniquenessCheck ==
    (Validated /\ FailedChecks(last.iv7Data) \cap (1..6) = {})
        => /\ uniqueCount(last.iv7Data) = DistinctValues(last.iv7Data)
           /\ ~last.ret.panic
           /\ last.ret = Rejection("Too many duplicate values")
                <=> DistinctValues(last.iv7Data) < 4

\* three distinct values, repeated at a distance: the first five checks pass
\* and the count of unique values stops the vector
C17_Witness ==
    /\ Validated
    /\ last.iv7Data = <<1000, 1020, 1040, 1000, 1020, 1040, 1000>>
    /\ FailedChecks(last.iv7Data) = {7}
    /\ uniqueCount(last.iv7Data) = 3
    /\ last.ret = Rejection("Too many duplicate values")

\* C18: a vector that passes the first five checks is rejected with "Too many
\* extreme value alternations" exactly when more than 3 of its 6 adjacent
\* pairs differ by more than 1500 in absolute value, and is accepted
\* otherwise; the count the code takes is the number of such pairs.
C18_AlternationCheck ==
    Validated =>
        /\ alternations(last.iv7Data) = ExtremePairs(last.iv7Data)
        /\ FailedChecks(last.iv7Data) \cap (1..7) = {}
              => /\ last.ret = Rejection("Too many extreme value alternations")
                      <=> ExtremePairs(last.iv7Data) > 3
                 /\ ExtremePairs(last.iv7Data) <= 3 => last.ret = Acceptance

\* a vector that reaches the alternation check: its adjacent differences are
\* 20 to 40, none is extreme, and it is accepted
C18_Witness ==
    /\ Validated
    /\ last.iv7Data = <<1000, 1020, 980, 1015, 985, 1025, 990>>
    /\ FailedChecks(last.iv7Data) \cap (1..7) = {}
    /\ alternations(last.iv7Data) = 0
    /\ last.ret = Acceptance

Verdicts ==
    {Acceptance} \cup
    {Rejection(CheckOrder(<<0, 0, 0, 0, 0, 0, 0>>)[k].reason) : k \in 1..8}

\* C19: validateIV7Data is total and deterministic: for every vector of
\* unsigned integers, values far above 3000 and up to the largest word
\* included, it returns a verdict without overflow or underflow, it leaves the
\* contract state as it was, and the verdict is a function of the vector alone.
C19_TotalAndPure ==
    Validated =>
        /\ ~last.ret.panic
        /\ last.ret \in Verdicts
        /\ last.ret = validateIV7Data(last.iv7Data)
        /\ Storage = last.pre

\* seven elements at the largest word: their sum is never computed, the range
\* check returns first
C19_Witness ==
    /\ Validated
    /\ \A i \in 1..7 : last.iv7Data[i] = UINT_MAX
    /\ sumUpTo(last.iv7Data, 7) = Panic
    /\ last.ret = Rejection("Value outside valid range")

-----------------------------------------------------------------------------
OwnerOperation == last.op \in {"updateOracleSigner", "updateMaxStaleness"}

\* the storage before the call with one field replaced
PreWith(field, value) == [last.pre EXCEPT ![field] = value]

\* C20: only the owner changes the oracle signer or the staleness limit:
\* updateOracleSigner and updateMaxStaleness called by the owner set the new
\* value and nothing else; called by any other account, the oracle signer
\* included, they revert with "Ownable: caller is not the owner" and leave
\* oracleSigner and maxStaleness (and everything else) as they were.
C20_OwnerOnlyUpdates ==
    OwnerOperation =>
        IF last.caller = last.pre.owner
        THEN /\ ~last.outcome.reverted
             /\ last.op = "updateOracleSigner"
                   => Storage = PreWith("oracleSigner", last.arg)
             /\ last.op = "updateMaxStaleness"
                   => Storage = PreWith("maxStaleness", last.arg)
        ELSE /\ last.outcome.reverted
             /\ last.outcome.reason = "Ownable: caller is not the owner"
             /\ oracleSigner = last.pre.oracleSigner
             /\ maxStaleness = last.pre.maxStaleness
             /\ Storage = last.pre

\* the oracle signer, who is not the owner, tries to change the staleness
\* limit to another value and is turned away
C20_Witness ==
    /\ last.op = "updateMaxStaleness"
    /\ last.caller # last.pre.owner
    /\ last.caller = last.pre.oracleSigner
    /\ last.arg # last.pre.maxStaleness
    /\ last.outcome.reverted
    /\ maxStaleness = last.pre.maxStaleness

-----------------------------------------------------------------------------
LookedUp == last.op = "getRecord"

\* the ids that successful calls of verifyAndStore returned before the lookup
ReturnedIds == {last.pre.allRecords[i] : i \in 1..Len(last.pre.allRecords)}

-----------------------------------------------------------------------------
\* a fresh report with an unused hash, a vector the validator rejects and a
\* signature that is not the oracle signer's
BadVectorBadSignature ==
    /\ Submitted
    /\ WasFresh
    /\ WasUnused
    /\ ~WasValid
    /\ ~WasSignedByOracle

\* C22 (as stated): the signature is verified before the validator runs: a
\* fresh, unused report with both an invalid signature and a vector that fails
\* validation is rejected as an invalid signature.
C22_SignatureBeforeValidation ==
    BadVectorBadSignature => RejectedAs("Invalid oracle signature")

\* C22, amended: the validator runs before the signature is verified: a fresh,
\* unused report with both an invalid signature and a vector that fails
\* validation is rejected as a validation failure carrying the validator's
\* reason, and nothing is stored or logged.
C22_ValidationBeforeSignature ==
    BadVectorBadSignature =>
        /\ RejectedAs("Validation failed: ")
        /\ last.outcome.detail = validateIV7Data(last.report.iv7Data).reason
        /\ last.outcome.detail # ""
        /\ Ledger = LedgerOf(last.pre)
        /\ logs = last.pre.logs

\* the rising vector of the tests, signed by an account that is not the oracle
\* signer
C22_Witness ==
    /\ BadVectorBadSignature
    /\ last.signer \in Accounts
    /\ last.report.iv7Data = monotonicIV
    /\ RejectedAs("Validation failed: ")
    /\ last.outcome.detail = "Variance too high - values too scattered"

-----------------------------------------------------------------------------
\* the ivHash the callers compute for a vector, keccak256 of its encoding
\* (test-contract.js line 105, part_001 line 74): one digest per vector, "h1"
\* being that of the vector of BaseReport
ivHashOf(iv7Data) ==
    IF iv7Data = validIV THEN "h1"
    ELSE IF iv7Data = reversedIV THEN "h2"
    ELSE "h3"

\* C23 (as stated): every stored record's ivHash is the digest of that
\* record's own iv7Data, so the same vector is never stored under two
\* different ivHash values.
C23_IvHashIsDigestOfVector ==
    /\ \A record \in StoredRecords : record.ivHash = ivHashOf(record.iv7Data)
    /\ \A r1, r2 \in StoredRecords :
          r1.iv7Data = r2.iv7Data => r1.ivHash = r2.ivHash

\* the same vector stored twice, once under its digest and once under another
\* value, both reports signed by the oracle signer
C23_Witness ==
    \E r1, r2 \in StoredRecords :
        /\ r1.iv7Data = r2.iv7Data
        /\ r1.ivHash = ivHashOf(r1.iv7Data)
        /\ r2.ivHash # ivHashOf(r2.iv7Data)

-----------------------------------------------------------------------------
\* C24: stored records are immutable and the ledger is append-only: whatever
\* the next operation is, getRecord of every stored txId returns the same field
\* values after it as before it, the entries of allRecords keep their
\* positions and none disappears, totalRecords does not decrease, and every
\* used ivHash stays used.
C24_AppendOnlyLedger ==
    [][ /\ \A txId \in DOMAIN ivRecords :
              /\ txId \in DOMAIN ivRecords'
              /\ ivRecords'[txId] = getRecord(txId)
        /\ Len(allRecords') >= Len(allRecords)
        /\ \A i \in 1..Len(allRecords) : allRecords'[i] = allRecords[i]
        /\ totalRecords' >= totalRecords
        /\ usedIvHash \subseteq usedIvHash'
      ]_vars

\* a second record was stored in a later block, after a change of signer, and
\* the one stored before it is where and what it was
C24_Witness ==
    /\ Stored
    /\ totalRecords = 2
    /\ oracleSigner # owner
    /\ getRecord(allRecords[1]).blockNumber < getRecord(allRecords[2]).blockNumber
    /\ allRecords[1] = last.pre.allRecords[1]
    /\ getRecord(allRecords[1]) = last.pre.ivRecords[allRecords[1]]
    /\ last.pre.usedIvHash \subseteq usedIvHash

-----------------------------------------------------------------------------
IntegrityChecked == last.op = "verifyChainIntegrity"

\* the positions of allRecords whose record holds a vector the validator rejects
InvalidPositions ==
    {i \in 1..Len(allRecords) :
        ~validateIV7Data(ivRecords[allRecords[i]].iv7Data).isValid}

\* C25: verifyChainIntegrity aggregates over the whole ledger: invalidCount is
\* the number of stored records whose iv7Data validateIV7Data rejects, all of
\* them and not just the first; isValid is true exactly when invalidCount is 0;
\* and the call changes no state.
C25_IntegrityCountsAll ==
    IntegrityChecked =>
        /\ last.ret.invalidCount = Cardinality(InvalidPositions)
        /\ last.ret.isValid <=> last.ret.invalidCount = 0
        /\ last.ret.status = IF last.ret.invalidCount = 0
                             THEN "All voiceprints valid"
                             ELSE "Invalid voiceprints detected in chain"
        /\ Storage = last.pre

\* both stored records hold a rejected vector, and both are counted
C25_Witness ==
    /\ IntegrityChecked
    /\ totalRecords = 2
    /\ InvalidPositions = {1, 2}
    /\ last.ret.invalidCount = 2
    /\ ~last.ret.isValid

-----------------------------------------------------------------------------
ListedIds == {allRecords[i] : i \in 1..Len(allRecords)}

\* C26: the index and the sequence stay consistent in every reachable state:
\* totalRecords is the length of allRecords; every txId in allRecords maps in
\* ivRecords to a record with isValid = true whose ivHash is marked used; and
\* every ivRecords entry with isValid = true has its txId in allRecords.
C26_IndexMatchesSequence ==
    /\ totalRecords = Len(allRecords)
    /\ \A txId \in ListedIds :
          /\ txId \in DOMAIN ivRecords
          /\ getRecord(txId).isValid
          /\ getRecord(txId).ivHash \in usedIvHash
    /\ \A txId \in DOMAIN ivRecords : ivRecords[txId].isValid => txId \in ListedIds

\* two records are stored and the latest call was turned away
C26_Witness ==
    /\ Rejected
    /\ totalRecords = 2
    /\ Len(allRecords) = 2
    /\ Cardinality(DOMAIN ivRecords) = 2
    /\ Cardinality(usedIvHash) = 2

-----------------------------------------------------------------------------
\* C27 (as stated): every stored record has a non-empty identity string;
\* verifyAndStore never stores a report whose identity is empty.
C27_IdentityNonEmpty ==
    /\ \A record \in StoredRecords : record.identity # ""
    /\ (Submitted /\ last.report.identity = "") => Rejected

\* a report with the empty identity, signed by the oracle signer, was stored
C27_Witness ==
    /\ Stored
    /\ last.report.identity = ""
    /\ WasSignedByOracle
    /\ getRecord(last.outcome.txId).identity = ""
    /\ getRecord(last.outcome.txId).isValid

-----------------------------------------------------------------------------
JustDeployed == last.op = "constructor"

\* C28: immediately after deployment with signer address s, oracleSigner is s,
\* totalRecords is 0, allRecords is empty, no ivHash is marked used and
\* maxStaleness is 10 minutes (600 seconds).
C28_DeploymentState ==
    JustDeployed =>
        /\ oracleSigner = last.signer
        /\ totalRecords = 0
        /\ allRecords = <<>>
        /\ usedIvHash = {}
        /\ \A h \in IvHashes : ~HashUsed([ivHash |-> h])
        /\ maxStaleness = 600
        /\ verifyChainIntegrity.invalidCount = 0

\* deployed by one account with another as the signer
C28_Witness ==
    /\ JustDeployed
    /\ last.signer = "user1"
    /\ oracleSigner = "user1"
    /\ owner # oracleSigner
    /\ totalRecords = 0

-----------------------------------------------------------------------------
SentByOracleSigner == last.caller = last.pre.oracleSigner

-----------------------------------------------------------------------------
\* the calls made after the owner replaced PreviousSigner by NewSigner
AfterRotation == Submitted /\ last.pre.oracleSigner = NewSigner
OtherwiseAdmissible == WasFresh /\ WasUnused /\ WasValid

\* C30: a rotation of the signer takes effect at once for every later
\* submission: after the owner has called updateOracleSigner(n), a report signed
\* by the previous signer is rejected, with "Invalid oracle signature" when it
\* is fresh, unused and valid (whenever the signature was made); a report signed
\* by n is accepted; and the records stored under the previous signer remain
\* stored and retrievable.
C30_RotationTakesEffect ==
    /\ (last.op = "updateOracleSigner" /\ ~last.outcome.reverted)
          => /\ oracleSigner = last.arg
             /\ Ledger = LedgerOf(last.pre)
    /\ AfterRotation =>
          /\ last.signer = PreviousSigner => Rejected
          /\ (last.signer = PreviousSigner /\ OtherwiseAdmissible)
                => RejectedAs("Invalid oracle signature")
          /\ (last.signer = NewSigner /\ OtherwiseAdmissible) => Stored
          /\ \A txId \in DOMAIN last.pre.ivRecords :
                getRecord(txId) = last.pre.ivRecords[txId]

\* one record is stored; after the rotation, in the block of the deployment, a
\* fresh, unused, valid report with the previous signer's signature is turned
\* away and the record is still there
C30_Witness ==
    /\ AfterRotation
    /\ last.signer = PreviousSigner
    /\ OtherwiseAdmissible
    /\ RejectedAs("Invalid oracle signature")
    /\ totalRecords = 1
    /\ getRecord(allRecords[1]).isValid
    /\ getRecord(allRecords[1]).blockNumber = 1
    /\ last.pre.blockNumber = 1

-----------------------------------------------------------------------------
\* the operations that are not verifyAndStore
OtherOperations == {"updateOracleSigner", "updateMaxStaleness"} \cup ViewOps

\* C31: append is the only operation that changes the ledger:
\* updateOracleSigner, updateMaxStaleness, validateIV7Data,
\* verifyChainIntegrity, getRecord and getUserRecords leave usedIvHash,
\* ivRecords, allRecords, userRecords and totalRecords as they were, and
\* verifyAndStore leaves oracleSigner, maxStaleness and the owner as they were.
C31_OnlyAppendChangesLedger ==
    /\ last.op \in OtherOperations => Ledger = LedgerOf(last.pre)
    /\ last.op \in ViewOps => Storage = last.pre
    /\ Submitted =>
          /\ oracleSigner = last.pre.oracleSigner
          /\ maxStaleness = last.pre.maxStaleness
          /\ owner = last.pre.owner
    /\ (last.op \in OtherOperations \cup {"verifyAndStore"}
           /\ Ledger # LedgerOf(last.pre)) => Stored

\* the owner replaced the signer when two records were stored, and the ledger
\* is what it was
C31_Witness ==
    /\ last.op = "updateOracleSigner"
    /\ ~last.outcome.reverted
    /\ oracleSigner # last.pre.oracleSigner
    /\ totalRecords = 2
    /\ usedIvHash = IvHashes
    /\ Ledger = LedgerOf(last.pre)

-----------------------------------------------------------------------------
\* the largest difference of two adjacent elements
LargestStep(iv7Data) ==
    CHOOSE d \in {Distance(iv7Data[i], iv7Data[i + 1]) : i \in 1..6} :
        \A i \in 1..6 : Distance(iv7Data[i], iv7Data[i + 1]) <= d

\* C32: validateIV7Data never returns "Too many extreme value alternations":
\* every vector that passes the variance check (variance at most 1200) has all
\* its adjacent differences far below 1500, so the alternation count is 0
\* whenever the alternation check is reached; a vector that has an adjacent
\* difference above 1500 is stopped by the range, spread or variance check.
\* (When the squared deviations of seven values sum to less than 7 * 1201, two
\* of the values are at most 129 apart: (a - m)^2 + (b - m)^2 <= 8406 gives
\* |a - b| <= |a - m| + |b - m| <= 129.)
C32_AlternationCheckNeverFails ==
    Validated =>
        /\ last.ret.reason # "Too many extreme value alternations"
        /\ (InRange(last.iv7Data) /\ VarianceOf(last.iv7Data) <= 1200)
              => /\ LargestStep(last.iv7Data) <= 129
                 /\ ExtremePairs(last.iv7Data) = 0
        /\ FailedChecks(last.iv7Data) \cap (1..7) = {}
              => alternations(last.iv7Data) = 0
        /\ ExtremePairs(last.iv7Data) > 0
              => /\ FirstFailed(last.iv7Data) \in {1, 2, 4}
                 /\ ~last.ret.isValid

\* all six adjacent pairs are extreme, the values are in range, four of them
\* are distinct, the spread is 1700 and the order is not monotonic: the
\* alternation check would fail, and the variance check returns before it
C32_Witness ==
    /\ Validated
    /\ last.iv7Data = <<500, 2100, 500, 2200, 600, 2200, 500>>
    /\ ExtremePairs(last.iv7Data) = 6
    /\ FailedChecks(last.iv7Data) = {4, 8}
    /\ last.ret = Rejection("Variance too high - values too scattered")

-----------------------------------------------------------------------------
\* the hashes of the records stored before the latest call
StoredHashesBefore ==
    {last.pre.ivRecords[txId].ivHash : txId \in DOMAIN last.pre.ivRecords}

\* the reasons for which a call carrying this hash was turned away
ReasonsTurnedAway(ivHash) ==
    {entry.reason : entry \in {e \in pending.waiting : e.ivHash = ivHash}}

\* C33: a rejected submission does not consume its ivHash: after
\* verifyAndStore was rejected for staleness, failed validation or an invalid
\* signature, a later verifyAndStore with the same ivHash that is fresh, valid
\* and signed by the oracle signer, the hash being in no stored record,
\* succeeds; an ivHash is marked used only by a successful store.
C33_RejectionKeepsHashFree ==
    /\ usedIvHash = {record.ivHash : record \in StoredRecords}
    /\ Rejected => usedIvHash = last.pre.usedIvHash
    /\ Stored => usedIvHash = last.pre.usedIvHash \cup {last.report.ivHash}
    /\ ( /\ Submitted
         /\ ReasonsTurnedAway(last.report.ivHash) # {}
         /\ last.report.ivHash \notin StoredHashesBefore
         /\ WasFresh /\ WasValid /\ WasSignedByOracle ) => Stored

\* a report is stored whose ivHash was turned away before for each of the
\* three reasons
C33_Witness ==
    /\ Stored
    /\ ReasonsTurnedAway(last.report.ivHash) = RetryReasons
    /\ last.report.ivHash \in usedIvHash
    /\ last.report.ivHash \notin last.pre.usedIvHash

-----------------------------------------------------------------------------
\* where a txId stands in userRecords: the pairs (account, position)
Occurrences(txId) ==
    {place \in UNION {{<<a, i>> : i \in 1..Len(userRecords[a])} : a \in Accounts} :
        userRecords[place[1]][place[2]] = txId}

\* C34: no two entries of allRecords are equal and no successful
\* verifyAndStore overwrites an existing ivRecords entry: successful stores
\* produce pairwise distinct txIds, and each stored txId appears exactly once in
\* userRecords, in the list of the account that called verifyAndStore.
C34_DistinctTxIds ==
    /\ \A i, j \in 1..Len(allRecords) : allRecords[i] = allRecords[j] => i = j
    /\ Cardinality(DOMAIN ivRecords) = totalRecords
    /\ Stored =>
          /\ last.outcome.txId \notin DOMAIN last.pre.ivRecords
          /\ \A txId \in DOMAIN last.pre.ivRecords :
                ivRecords[txId] = last.pre.ivRecords[txId]
          /\ userRecords[last.caller]
                = Append(last.pre.userRecords[last.caller], last.outcome.txId)
    /\ \A txId \in DOMAIN ivRecords : Cardinality(Occurrences(txId)) = 1
    /\ \A k \in 1..Len(logs) :
          logs[k].event = "IVRecordStored"
              => \E i \in 1..Len(userRecords[logs[k].caller]) :
                    Occurrences(logs[k].txId) = {<<logs[k].caller, i>>}
    /\ \A a \in Accounts : \A i \in 1..Len(userRecords[a]) :
          userRecords[a][i] \in DOMAIN ivRecords

\* two records stored in one block by one caller: their txIds differ by the
\* ivHash alone, and both stand in the caller's list
C34_Witness ==
    /\ Stored
    /\ totalRecords = 2
    /\ allRecords[1] # allRecords[2]
    /\ getRecord(allRecords[1]).blockNumber = getRecord(allRecords[2]).blockNumber
    /\ userRecords[last.caller] = allRecords
    /\ Cardinality(DOMAIN ivRecords) = 2

-----------------------------------------------------------------------------
\* C35: when a report fails several admission checks at once, verifyAndStore
\* reports them in the fixed precedence staleness, then duplicate ivHash, then
\* validation: a stale report with an already-used ivHash is rejected as
\* "Report too stale", and a fresh report with an already-used ivHash and an
\* invalid vector is rejected as "IV hash already used".
C35_AdmissionPrecedence ==
    Submitted =>
        /\ ~WasFresh => RejectedAs("Report too stale")
        /\ (WasFresh /\ ~WasUnused) => RejectedAs("IV hash already used")
        /\ (WasFresh /\ WasUnused /\ ~WasValid) => RejectedAs("Validation failed: ")
        /\ (~WasFresh /\ ~WasUnused) => last.outcome.reason = "Report too stale"
        /\ (WasFresh /\ ~WasUnused /\ ~WasValid)
              => last.outcome.reason = "IV hash already used"
        /\ Rejected => last.outcome.emitted = <<>> \/ (WasFresh /\ WasUnused)

\* a report that fails all three checks, and the signature check as well: its
\* hash is stored, its vector is the rising one, the block is 601 seconds
\* later than the report; it is rejected as stale
C35_Witness ==
    /\ Submitted
    /\ AgeAtCall > last.pre.maxStaleness
    /\ ~WasUnused
    /\ ~WasValid
    /\ ~WasSignedByOracle
    /\ RejectedAs("Report too stale")

-----------------------------------------------------------------------------
\* C36: the ValidationFailed event is never part of a committed outcome:
\* verifyAndStore emits it only on the path that then reverts the whole call,
\* so after any sequence of operations the committed event log contains only
\* IVRecordStored events, exactly one per stored record.
C36_OnlyStoredEventsCommitted ==
    /\ \A k \in 1..Len(logs) : logs[k].event = "IVRecordStored"
    /\ Len(logs) = totalRecords
    /\ \A k \in 1..Len(logs) :
          /\ logs[k].txId = allRecords[k]
          /\ logs[k].ivHash = getRecord(allRecords[k]).ivHash
    /\ Submitted =>
          /\ (\E k \in 1..Len(last.outcome.emitted) :
                 last.outcome.emitted[k].event = "ValidationFailed")
                <=> RejectedAs("Validation failed: ")
          /\ Rejected => logs = last.pre.logs
          /\ Stored => logs = last.pre.logs \o last.outcome.emitted

\* a call emitted ValidationFailed and reverted; the log holds the
\* IVRecordStored event of the one stored record and nothing else
C36_Witness ==
    /\ RejectedAs("Validation failed: ")
    /\ last.outcome.emitted
          = <<ValidationFailed(last.report.ivHash, last.outcome.detail, last.caller)>>
    /\ totalRecords = 1
    /\ Len(logs) = 1
    /\ logs[1].event = "IVRecordStored"
    /\ logs = last.pre.logs

====
